---- MODULE Spec2Model ----
(***************************************************************************)
(* Chippin backend (Django REST): balance computation, debt                *)
(* simplification, equal splits and the offline sync push protocol.        *)
(*                                                                         *)
(* Money is held in integer cents (a Decimal with two places).  A Python   *)
(* float is held as a pair [c, e]: the value c/100 + e * 2^-59 / 25, c the *)
(* nominal cents and e the exact binary64 representation error.            *)
(***************************************************************************)
EXTENDS Integers, Sequences, FiniteSets, TLC

\* ---------------------------------------------------------------- bounds
MaxBalance == 5
MaxSimpMembers == 3
MaxSplitAmount == 12
MaxSplitMembers == 4
MaxAmount == 2      \* amounts of expenses, splits and settlements, in cents
MaxGroups == 1
MaxExpenses == 1
MaxSettlements == 1
MaxTime == 1
MaxLog == 1
MaxSyncLog == 2
MaxVersion == 2

Users == <<"u1", "u2", "u3", "u4", "u5", "u6">>
UserSet == {"u1", "u2"}

VARIABLES
  db,             \* the tables: groups, memberships, expenses, settlements, sync_logs
  now,            \* timezone.now()
  dbRounding,     \* how the build rounds a Decimal tie to two places on save
  sBalances,      \* _simplify_debts: the balances argument
  sDebtors,       \* _simplify_debts: debtors
  sCreditors,     \* _simplify_debts: creditors
  sI,             \* _simplify_debts: i (0-based, as in the source)
  sJ,             \* _simplify_debts: j
  sTransactions,  \* _simplify_debts: transactions
  sPc,            \* _simplify_debts: "start" | "loop" | "done"
  eqs,            \* _create_equal_splits: its arguments and the splits it stored
  push,           \* the push requests in flight, one per client
  tx,             \* the tables as the open push transaction has written them
  pull            \* a client that pulls: its last_sync and what it has received

simpVars == <<sBalances, sDebtors, sCreditors, sI, sJ, sTransactions, sPc>>
dbVars == <<db, now, dbRounding>>
pullVars == <<tx, pull>>
auxVars == <<simpVars, eqs, push, pullVars>>
vars == <<dbVars, auxVars>>

\* ------------------------------------------------------- generic helpers
RECURSIVE SeqSum(_)
SeqSum(s) == IF s = <<>> THEN 0 ELSE Head(s) + SeqSum(Tail(s))

Abs(x) == IF x < 0 THEN -x ELSE x

\* ------------------------------------------------ binary64 (Python float)
\* 2^n mod 25; the powers of 2 modulo 25 repeat with period 20
Pow2Mod25(n) == (2^(n % 20)) % 25

\* c/100 + e*u >= 2^(k-7), for u = 2^-59/25 and |e| far below one cent
BinadeGeq(c, e, k) ==
  IF k >= 5
  THEN c > 25 * 2^(k - 5) \/ (c = 25 * 2^(k - 5) /\ e >= 0)
  ELSE c * 2^(5 - k) > 25

\* the binade of a positive value: its doubles are the multiples of 25*2^k units
Binade(c, e) ==
  CHOOSE k \in 0..20 : BinadeGeq(c, e, k) /\ (k = 20 \/ ~BinadeGeq(c, e, k + 1))

\* round-to-nearest, ties-to-even, of the exact value c/100 + e*u
FloatRound(c, e) ==
  IF c = 0 THEN [c |-> 0, e |-> e]
  ELSE LET k == Binade(c, e)
           G == 25 * 2^k
           base == 2^(k + 1) * ((c * Pow2Mod25(56 - k)) % 25)
           r2 == (base + e) % (2 * G)
           r == r2 % G
       IN IF 2 * r < G \/ (2 * r = G /\ r2 < G)
          THEN [c |-> c, e |-> e - r]
          ELSE [c |-> c, e |-> e + (G - r)]

\* float(Decimal) of a non-negative amount of cents
FloatOfCents(c) == FloatRound(c, 0)

FloatSub(x, y) == FloatRound(x.c - y.c, x.e - y.e)

FloatLt(x, y) == x.c < y.c \/ (x.c = y.c /\ x.e < y.e)

\* Python min(x, y): y only when y < x
FloatMin(x, y) == IF FloatLt(y, x) THEN y ELSE x

\* the literal 0.01
Float001 == FloatOfCents(1)

\* ------------------------------------------------------ _simplify_debts
\* list.sort(key=amount, reverse=True): stable, descending
RECURSIVE InsertDesc(_, _)
InsertDesc(sorted, x) ==
  IF sorted = <<>> THEN <<x>>
  ELSE IF FloatLt(Head(sorted).amount, x.amount)
       THEN <<x>> \o sorted
       ELSE <<Head(sorted)>> \o InsertDesc(Tail(sorted), x)

RECURSIVE SortDesc(_)
SortDesc(s) ==
  IF s = <<>> THEN <<>>
  ELSE InsertDesc(SortDesc(SubSeq(s, 1, Len(s) - 1)), s[Len(s)])

\* b['balance'] < -0.01, b['balance'] > 0.01 on the float of a cent amount
IsDebtor(b) == b.balance < 0 /\ FloatLt(Float001, FloatOfCents(-b.balance))
IsCreditor(b) == b.balance > 0 /\ FloatLt(Float001, FloatOfCents(b.balance))

DebtorsOf(balances) ==
  LET sel == SelectSeq(balances, IsDebtor)
  IN SortDesc([k \in 1..Len(sel) |->
       [user |-> sel[k].user, amount |-> FloatOfCents(Abs(sel[k].balance))]])

\* a creditor list that forgets the sign of the balance
CreditorsOfAnySign(balances) ==
  LET sel == SelectSeq(balances, LAMBDA b : IsDebtor(b) \/ IsCreditor(b))
  IN SortDesc([k \in 1..Len(sel) |->
       [user |-> sel[k].user, amount |-> FloatOfCents(Abs(sel[k].balance))]])

CreditorsOf(balances) ==
  LET sel == SelectSeq(balances, IsCreditor)
  IN SortDesc([k \in 1..Len(sel) |->
       [user |-> sel[k].user, amount |-> FloatOfCents(sel[k].balance)]])

SimplifyStart(balances) ==
  [debtors |-> DebtorsOf(balances), creditors |-> CreditorsOf(balances),
   i |-> 0, j |-> 0, transactions |-> <<>>]

LoopCondition(st) == st.i < Len(st.debtors) /\ st.j < Len(st.creditors)

\* an iteration that advances the creditor cursor only when the debtor
\* cursor stays
SimplifyStepDebtorFirst(st) ==
  LET debtor == st.debtors[st.i + 1]
      creditor == st.creditors[st.j + 1]
      amount == FloatMin(debtor.amount, creditor.amount)
      dLeft == FloatSub(debtor.amount, amount)
      cLeft == FloatSub(creditor.amount, amount)
  IN [debtors |-> [st.debtors EXCEPT ![st.i + 1].amount = dLeft],
      creditors |-> [st.creditors EXCEPT ![st.j + 1].amount = cLeft],
      i |-> IF FloatLt(dLeft, Float001) THEN st.i + 1 ELSE st.i,
      j |-> IF FloatLt(cLeft, Float001) /\ ~FloatLt(dLeft, Float001)
            THEN st.j + 1 ELSE st.j,
      transactions |->
        IF FloatLt(Float001, amount)
        THEN Append(st.transactions,
                    [from_user |-> debtor.user, to_user |-> creditor.user,
                     amount |-> amount.c])
        ELSE st.transactions]

\* one iteration of the while loop
SimplifyStep(st) ==
  LET debtor == st.debtors[st.i + 1]
      creditor == st.creditors[st.j + 1]
      amount == FloatMin(debtor.amount, creditor.amount)
      dLeft == FloatSub(debtor.amount, amount)
      cLeft == FloatSub(creditor.amount, amount)
  IN [debtors |-> [st.debtors EXCEPT ![st.i + 1].amount = dLeft],
      creditors |-> [st.creditors EXCEPT ![st.j + 1].amount = cLeft],
      i |-> IF FloatLt(dLeft, Float001) THEN st.i + 1 ELSE st.i,
      j |-> IF FloatLt(cLeft, Float001) THEN st.j + 1 ELSE st.j,
      transactions |->
        IF FloatLt(Float001, amount)
        THEN Append(st.transactions,
                    [from_user |-> debtor.user, to_user |-> creditor.user,
                     amount |-> amount.c])   \* round(amount, 2), in cents
        ELSE st.transactions]

RECURSIVE SimplifyLoop(_)
SimplifyLoop(st) ==
  IF LoopCondition(st) THEN SimplifyLoop(SimplifyStep(st)) ELSE st.transactions

simplify_debts(balances) == SimplifyLoop(SimplifyStart(balances))

\* -------------------------------------- _calculate_balances: result.sort
RECURSIVE InsertAsc(_, _)
InsertAsc(sorted, x) ==
  IF sorted = <<>> THEN <<x>>
  ELSE IF x.balance < Head(sorted).balance
       THEN <<x>> \o sorted
       ELSE <<Head(sorted)>> \o InsertAsc(Tail(sorted), x)

RECURSIVE SortAsc(_)
SortAsc(s) ==
  IF s = <<>> THEN <<>>
  ELSE InsertAsc(SortAsc(SubSeq(s, 1, Len(s) - 1)), s[Len(s)])

\* ---------------------------------------------------------------- tables
NoTime == -1    \* a null DateTimeField

EmptyDb == [groups |-> <<>>, memberships |-> <<>>, expenses |-> <<>>,
            settlements |-> <<>>, sync_logs |-> <<>>]

GroupIds(d) == 1..Len(d.groups)
ExpenseIds(d) == 1..Len(d.expenses)

\* Group.objects.filter(id=g, members=user).exists()
IsMember(d, user, g) ==
  \E k \in 1..Len(d.memberships) :
    d.memberships[k].user = user /\ d.memberships[k].group = g

\* group.members.all(): the users of the group's membership rows, in stored order
MembersOf(d, g) ==
  LET rows == SelectSeq(d.memberships, LAMBDA m : m.group = g)
  IN [k \in 1..Len(rows) |-> rows[k].user]

RoleOf(d, user, g) ==
  LET rows == SelectSeq(d.memberships, LAMBDA m : m.group = g /\ m.user = user)
  IN IF rows = <<>> THEN "none" ELSE rows[1].role

\* membership.delete()
DeleteMembership(d, user, g) ==
  [d EXCEPT !.memberships = SelectSeq(@, LAMBDA m : ~(m.group = g /\ m.user = user))]

Reply(d, status, body) == [db |-> d, status |-> status, body |-> body]

\* ---------------------------------------------------------------- groups
\* GroupCreateSerializer.create
GroupCreateSerializer_create(d, t, user) ==
  LET g == Len(d.groups) + 1
  IN [d EXCEPT !.groups = Append(@, [owner |-> user, updated_at |-> t]),
               !.memberships = Append(@, [user |-> user, group |-> g, role |-> "owner"])]

\* GroupViewSet.join with the invite code of group g (an unknown code is g = 0)
GroupViewSet_join(d, user, g) ==
  IF g \notin GroupIds(d) THEN Reply(d, 400, "invalid_invite_code")
  ELSE IF IsMember(d, user, g) THEN Reply(d, 400, "already_member")
  ELSE Reply([d EXCEPT !.memberships = Append(@, [user |-> user, group |-> g, role |-> "member"])],
             200, "joined")

\* GroupViewSet.leave
GroupViewSet_leave(d, user, g) ==
  IF g \notin GroupIds(d) \/ ~IsMember(d, user, g) THEN Reply(d, 404, "not_found")
  ELSE IF d.groups[g].owner = user THEN Reply(d, 400, "owner_cannot_leave")
  ELSE Reply(DeleteMembership(d, user, g), 200, "left")

\* IsGroupOwnerOrAdmin.has_object_permission
IsGroupOwnerOrAdmin(d, user, g) ==
  d.groups[g].owner = user \/ RoleOf(d, user, g) \in {"owner", "admin"}

\* The spellings of a user's id that a request can carry: str(uuid), the
\* lower-case hyphenated form, and any other text uuid.UUID(hex=...) reads
\* as the same id (upper case, no hyphens, braces).
UuidForms == {"canonical", "other"}

UserIdStrings == [user : UserSet, form : UuidForms]

\* str(user.id)
str_id(user) == [user |-> user, form |-> "canonical"]

\* UUIDField.to_python, applied to the value of a user_id=... lookup
to_python(user_id) == user_id.user

\* GroupViewSet.remove_member: user_id is request.data.get('user_id'), a
\* string; the owner test compares strings, the membership lookup parses it
GroupViewSet_remove_member(d, user, g, user_id) ==
  IF g \notin GroupIds(d) \/ ~IsMember(d, user, g) THEN Reply(d, 404, "not_found")
  ELSE IF ~IsGroupOwnerOrAdmin(d, user, g) THEN Reply(d, 403, "forbidden")
  ELSE IF str_id(d.groups[g].owner) = user_id THEN Reply(d, 400, "cannot_remove_owner")
  ELSE IF ~IsMember(d, to_python(user_id), g) THEN Reply(d, 400, "not_a_member")
  ELSE Reply(DeleteMembership(d, to_python(user_id), g), 200, "removed")

\* GroupViewSet.update / partial_update (ModelViewSet, GroupSerializer): the
\* owner field is read-only, Group.save() refreshes updated_at
GroupViewSet_update(d, t, user, g) ==
  IF g \notin GroupIds(d) \/ ~IsMember(d, user, g) THEN Reply(d, 404, "not_found")
  ELSE IF ~IsGroupOwnerOrAdmin(d, user, g) THEN Reply(d, 403, "forbidden")
  ELSE Reply([d EXCEPT !.groups[g].updated_at = t], 200, "updated")

\* -------------------------------------------------------------- expenses
\* A Decimal num/den cents written to a DecimalField(decimal_places=2): the
\* nearest cent; a tie goes to the even cent (Django's quantize) or away from
\* zero (a numeric(12,2) column), as the build's database backend has it.
DecimalFieldStore(num, den, mode) ==
  LET q == num \div den
      r == num % den
  IN IF 2 * r < den THEN q
     ELSE IF 2 * r > den THEN q + 1
     ELSE IF mode = "half_up" \/ q % 2 = 1 THEN q + 1 ELSE q

\* ExpenseSerializer._create_equal_splits: per_person = amount / len(members)
\* at 28 digits, remainder = amount - per_person * len(members) (below 1e-20),
\* first member gets per_person + remainder; each is rounded when stored.
create_equal_splits(amount, members, mode) ==
  [i \in 1..Len(members) |->
     [user |-> members[i],
      amount |-> DecimalFieldStore(amount, Len(members), mode),
      is_settled |-> FALSE]]

\* ExpenseSerializer.validate_amount
validate_amount(value) == value > 0

SplitTotal(splits) == SeqSum([k \in 1..Len(splits) |-> splits[k].amount])

\* ExpenseSerializer.validate
validate(data) ==
  IF "split_data" \in DOMAIN data /\ data.split_data # <<>>
  THEN ~(Abs(SplitTotal(data.split_data) - data.amount) > 1)
  ELSE TRUE

StoredSplits(splits) ==
  [k \in 1..Len(splits) |->
     [user |-> splits[k].user_id, amount |-> splits[k].amount, is_settled |-> FALSE]]

\* ExpenseSerializer.create
ExpenseSerializer_create(d, t, mode, user, data) ==
  LET split_data == IF "split_data" \in DOMAIN data THEN data.split_data ELSE <<>>
      splits == IF split_data # <<>> THEN StoredSplits(split_data)
                ELSE create_equal_splits(data.amount, MembersOf(d, data.group), mode)
  IN [d EXCEPT !.expenses = Append(@,
        [group |-> data.group, amount |-> data.amount, paid_by |-> data.paid_by,
         created_by |-> user, is_deleted |-> FALSE, is_settled |-> FALSE,
         updated_at |-> t, sync_version |-> 1, last_synced_at |-> NoTime,
         notes |-> IF "notes" \in DOMAIN data THEN data.notes ELSE "",
         splits |-> splits])]

\* ExpenseViewSet.create
ExpenseViewSet_create(d, t, mode, user, data) ==
  IF data.group \notin GroupIds(d) THEN Reply(d, 404, "not_found")
  ELSE IF ~IsMember(d, user, data.group) THEN Reply(d, 403, "not_a_member")
  ELSE IF ~(validate_amount(data.amount) /\ validate(data)) THEN Reply(d, 400, "invalid")
  ELSE Reply(ExpenseSerializer_create(d, t, mode, user, data), 201, "created")

\* a queryset that keeps the deleted expenses
ExpenseVisibleWithDeleted(d, user, id) ==
  /\ id \in ExpenseIds(d)
  /\ IsMember(d, user, d.expenses[id].group)

\* ExpenseViewSet.get_object: the expense must be in get_queryset
ExpenseVisible(d, user, id) ==
  /\ id \in ExpenseIds(d)
  /\ IsMember(d, user, d.expenses[id].group)
  /\ ~d.expenses[id].is_deleted

\* IsExpenseOwner.has_object_permission
IsExpenseOwner(d, user, id) ==
  d.groups[d.expenses[id].group].owner = user \/ d.expenses[id].created_by = user

\* ExpenseViewSet.update / partial_update: the fields of the request that
\* the serializer leaves writable, among them amount, sync_version and
\* is_deleted
ExpenseViewSet_update(d, t, user, id, data) ==
  IF ~ExpenseVisible(d, user, id) THEN Reply(d, 404, "not_found")
  ELSE IF ~IsExpenseOwner(d, user, id) THEN Reply(d, 403, "forbidden")
  ELSE IF "amount" \in DOMAIN data /\ ~validate_amount(data.amount)
  THEN Reply(d, 400, "invalid")
  ELSE Reply([d EXCEPT !.expenses[id].amount =
                          IF "amount" \in DOMAIN data THEN data.amount ELSE @,
                       !.expenses[id].sync_version =
                          IF "sync_version" \in DOMAIN data THEN data.sync_version ELSE @,
                       !.expenses[id].is_deleted =
                          IF "is_deleted" \in DOMAIN data THEN data.is_deleted ELSE @,
                       !.expenses[id].updated_at = t], 200, "updated")

\* a destroy that also drops the splits of the expense
ExpenseViewSet_destroy_with_splits(d, t, user, id) ==
  IF ~ExpenseVisible(d, user, id) THEN Reply(d, 404, "not_found")
  ELSE IF ~IsExpenseOwner(d, user, id) THEN Reply(d, 403, "forbidden")
  ELSE Reply([d EXCEPT !.expenses[id].is_deleted = TRUE,
                       !.expenses[id].updated_at = t,
                       !.expenses[id].splits = <<>>], 204, "deleted")

\* ExpenseViewSet.destroy
ExpenseViewSet_destroy(d, t, user, id) ==
  IF ~ExpenseVisible(d, user, id) THEN Reply(d, 404, "not_found")
  ELSE IF ~IsExpenseOwner(d, user, id) THEN Reply(d, 403, "forbidden")
  ELSE Reply([d EXCEPT !.expenses[id].is_deleted = TRUE,
                       !.expenses[id].updated_at = t], 204, "deleted")

\* ExpenseViewSet.settle
ExpenseViewSet_settle(d, t, user, id) ==
  IF ~ExpenseVisible(d, user, id) THEN Reply(d, 404, "not_found")
  ELSE Reply([d EXCEPT !.expenses[id].is_settled = TRUE,
                       !.expenses[id].updated_at = t,
                       !.expenses[id].splits =
                          [k \in 1..Len(@) |-> [@[k] EXCEPT !.is_settled = TRUE]]],
             200, "settled")

\* ----------------------------------------------------------- settlements
\* SettlementViewSet.get_object: the settlement must be in get_queryset
SettlementVisible(d, user, k) ==
  /\ k \in 1..Len(d.settlements)
  /\ IsMember(d, user, d.settlements[k].group)

\* SettlementViewSet.update / partial_update (ModelViewSet, SettlementSerializer):
\* amount is a writable DecimalField without a validator, settled_at and
\* created_by are read-only
SettlementViewSet_update(d, user, k, data) ==
  IF ~SettlementVisible(d, user, k) THEN Reply(d, 404, "not_found")
  ELSE Reply([d EXCEPT !.settlements[k].amount = data.amount], 200, "updated")

\* SettlementViewSet.destroy (ModelViewSet): instance.delete()
SettlementViewSet_destroy(d, user, k) ==
  IF ~SettlementVisible(d, user, k) THEN Reply(d, 404, "not_found")
  ELSE Reply([d EXCEPT !.settlements =
                SubSeq(@, 1, k - 1) \o SubSeq(@, k + 1, Len(@))], 204, "deleted")

\* ------------------------------------------------------------- balances
\* an expense filter that forgets is_settled=False
ActiveExpensesWithSettled(d, g) ==
  SelectSeq(d.expenses, LAMBDA e : e.group = g /\ ~e.is_deleted)

\* Expense.objects.filter(group=group, is_deleted=False, is_settled=False)
ActiveExpenses(d, g) ==
  SelectSeq(d.expenses, LAMBDA e : e.group = g /\ ~e.is_deleted /\ ~e.is_settled)

GroupSettlements(d, g) == SelectSeq(d.settlements, LAMBDA s : s.group = g)

\* the paid and owes dictionaries after the loop over expenses
PaidByExpenses(ex, u) ==
  SeqSum([k \in 1..Len(ex) |-> IF ex[k].paid_by = u THEN ex[k].amount ELSE 0])

OwedBySplits(splits, u) ==
  SeqSum([k \in 1..Len(splits) |-> IF splits[k].user = u THEN splits[k].amount ELSE 0])

OwesByExpenses(ex, u) ==
  SeqSum([k \in 1..Len(ex) |-> OwedBySplits(ex[k].splits, u)])

\* the change the loop over settlements makes to paid[u] and to owes[u]
SettlementsPaid(st, u) ==
  SeqSum([k \in 1..Len(st) |->
    (IF st[k].from_user = u THEN st[k].amount ELSE 0)
    - (IF st[k].to_user = u THEN st[k].amount ELSE 0)])

SettlementsOwes(st, u) ==
  SeqSum([k \in 1..Len(st) |->
    (IF st[k].to_user = u THEN st[k].amount ELSE 0)
    - (IF st[k].from_user = u THEN st[k].amount ELSE 0)])

\* GroupViewSet._calculate_balances
calculate_balances(d, g) ==
  LET ex == ActiveExpenses(d, g)
      st == GroupSettlements(d, g)
      members == MembersOf(d, g)
      net_paid(u) == PaidByExpenses(ex, u) + SettlementsPaid(st, u)
      net_owed(u) == OwesByExpenses(ex, u) + SettlementsOwes(st, u)
      result == SortAsc([k \in 1..Len(members) |->
                  [user |-> members[k],
                   paid |-> net_paid(members[k]),
                   owes |-> net_owed(members[k]),
                   balance |-> net_paid(members[k]) - net_owed(members[k])]])
  IN [balances |-> result, simplified_debts |-> simplify_debts(result)]

\* a balances view that marks what it has reported as settled
GroupViewSet_balances_settling(d, user, g) ==
  IF g \notin GroupIds(d) \/ ~IsMember(d, user, g) THEN Reply(d, 404, "not_found")
  ELSE Reply([d EXCEPT !.expenses =
                [id \in DOMAIN @ |->
                   IF @[id].group = g THEN [@[id] EXCEPT !.is_settled = TRUE] ELSE @[id]]],
             200, calculate_balances(d, g))

\* GroupViewSet.balances
GroupViewSet_balances(d, user, g) ==
  IF g \notin GroupIds(d) \/ ~IsMember(d, user, g) THEN Reply(d, 404, "not_found")
  ELSE Reply(d, 200, calculate_balances(d, g))

\* ------------------------------------------------------------ sync push
NewResult(change) ==
  [entity_type |-> change.entity_type, operation |-> change.operation,
   success |-> FALSE, conflict |-> FALSE, error |-> "", server_id |-> 0,
   data |-> <<>>, server_data |-> <<>>]

SyncSplits(splits) ==
  [k \in 1..Len(splits) |->
     [user |-> splits[k].user_id, amount |-> splits[k].amount, is_settled |-> FALSE]]

\* what a _sync_* call leaves behind: the tables, the result dictionary, and
\* whether it raised inside Model.save, which marks the open transaction
\* for rollback (needs_rollback) so that no further query can run in it
Outcome(d, result) == [db |-> d, result |-> result, needs_rollback |-> FALSE]

Raise(d, result, error, needs_rollback) ==
  [db |-> d, result |-> [result EXCEPT !.error = error],
   needs_rollback |-> needs_rollback]

\* an element of data['splits'] that is not a JSON object (DictField does not
\* validate the values of the dictionary): split.get raises AttributeError
NonDictItem == [user_id |-> "not_an_object", amount |-> 0]

\* the loop "for split in splits: ExpenseSplit.objects.create(...)" up to
\* its first exception; unique_together = ['expense', 'user'] makes a second
\* row for the same user an IntegrityError raised inside Model.save
RECURSIVE WriteSplits(_, _)
WriteSplits(stored, splits) ==
  IF splits = <<>> THEN [splits |-> stored, error |-> "", needs_rollback |-> FALSE]
  ELSE IF Head(splits) = NonDictItem
  THEN [splits |-> stored, error |-> "AttributeError", needs_rollback |-> FALSE]
  ELSE IF \E k \in 1..Len(stored) : stored[k].user = Head(splits).user_id
  THEN [splits |-> stored, error |-> "IntegrityError", needs_rollback |-> TRUE]
  ELSE WriteSplits(stored \o SyncSplits(<<Head(splits)>>), Tail(splits))

\* a conflict test that also refuses a client as recent as the server
ServerVersionIsNewerOrSame(updated_at, client_timestamp) == updated_at >= client_timestamp

\* the conflict test: expense.updated_at > client_timestamp
ServerVersionIsNewer(updated_at, client_timestamp) == updated_at > client_timestamp

\* an update that takes the fields missing from the data as empty
UpdatedFieldsAll(expense, data) ==
  [expense EXCEPT !.amount = IF "amount" \in DOMAIN data THEN data.amount ELSE @,
                  !.notes = IF "notes" \in DOMAIN data THEN data.notes ELSE ""]

\* "for field in [...]: if field in data: setattr(expense, field, data[field])"
UpdatedFields(expense, data) ==
  [expense EXCEPT !.amount = IF "amount" \in DOMAIN data THEN data.amount ELSE @,
                  !.notes = IF "notes" \in DOMAIN data THEN data.notes ELSE @]

\* SyncPushView._sync_expense
sync_expense(d, t, user, change, result) ==
  LET data == change.data
      id == change.entity_id
  IN
  IF change.operation = "create" THEN
    IF ~("group" \in DOMAIN data /\ data.group \in GroupIds(d) /\ IsMember(d, user, data.group))
    THEN Outcome(d, [result EXCEPT !.error = "Group not found or access denied"])
    ELSE LET written == WriteSplits(<<>>, IF "splits" \in DOMAIN data THEN data.splits ELSE <<>>)
             expense ==
               [group |-> data.group, amount |-> data.amount, paid_by |-> data.paid_by,
                created_by |-> user, is_deleted |-> FALSE, is_settled |-> FALSE,
                updated_at |-> t, sync_version |-> 1, last_synced_at |-> t,
                notes |-> IF "notes" \in DOMAIN data THEN data.notes ELSE "",
                splits |-> written.splits]
             stored == [d EXCEPT !.expenses = Append(@, expense)]
         IN IF written.error # ""
            THEN Raise(stored, result, written.error, written.needs_rollback)
            ELSE Outcome(stored,
                         [result EXCEPT !.success = TRUE,
                                        !.server_id = Len(d.expenses) + 1,
                                        !.data = <<expense>>])
  ELSE IF change.operation = "update" THEN
    IF id \notin ExpenseIds(d)
    THEN Outcome(d, [result EXCEPT !.error = "Expense not found"])
    ELSE IF ServerVersionIsNewer(d.expenses[id].updated_at, change.client_timestamp)
    THEN Outcome(d, [result EXCEPT !.conflict = TRUE,
                                   !.server_data = <<d.expenses[id]>>,
                                   !.error = "Server version is newer"])
    ELSE IF d.expenses[id].created_by # user /\ d.groups[d.expenses[id].group].owner # user
    THEN Outcome(d, [result EXCEPT !.error = "Permission denied"])
    ELSE LET old == d.expenses[id]
             written == IF "splits" \in DOMAIN data THEN WriteSplits(<<>>, data.splits)
                        ELSE WriteSplits(old.splits, <<>>)
             expense ==
               [UpdatedFields(old, data) EXCEPT
                           !.sync_version = @ + 1,
                           !.last_synced_at = t,
                           !.updated_at = t,
                           !.splits = written.splits]
             stored == [d EXCEPT !.expenses[id] = expense]
         IN IF written.error # ""
            THEN Raise(stored, result, written.error, written.needs_rollback)
            ELSE Outcome(stored, [result EXCEPT !.success = TRUE, !.data = <<expense>>])
  ELSE \* delete
    IF id \notin ExpenseIds(d)
    THEN Outcome(d, [result EXCEPT !.error = "Expense not found"])
    ELSE IF d.expenses[id].created_by # user /\ d.groups[d.expenses[id].group].owner # user
    THEN Outcome(d, [result EXCEPT !.error = "Permission denied"])
    ELSE Outcome([d EXCEPT !.expenses[id].is_deleted = TRUE,
                           !.expenses[id].updated_at = t],
                 [result EXCEPT !.success = TRUE])

\* SyncPushView._sync_group
sync_group(d, t, user, change, result) ==
  LET id == change.entity_id
  IN
  IF change.operation = "create" THEN
    LET created == GroupCreateSerializer_create(d, t, user)
    IN Outcome(created,
               [result EXCEPT !.success = TRUE, !.server_id = Len(created.groups),
                              !.data = <<created.groups[Len(created.groups)]>>])
  ELSE IF change.operation = "update" THEN
    IF ~(id \in GroupIds(d) /\ d.groups[id].owner = user)
    THEN Outcome(d, [result EXCEPT !.error = "Group not found or permission denied"])
    ELSE IF ServerVersionIsNewer(d.groups[id].updated_at, change.client_timestamp)
    THEN Outcome(d, [result EXCEPT !.conflict = TRUE,
                                   !.server_data = <<d.groups[id]>>,
                                   !.error = "Server version is newer"])
    ELSE LET group == [d.groups[id] EXCEPT !.updated_at = t]
         IN Outcome([d EXCEPT !.groups[id] = group],
                    [result EXCEPT !.success = TRUE, !.data = <<group>>])
  ELSE Outcome(d, result)

\* a settlement handler that looks the group up without members=user
sync_settlement_any_group(d, t, user, change, result) ==
  LET data == change.data
  IN
  IF change.operation = "create" /\ "group" \in DOMAIN data /\ data.group \in GroupIds(d)
  THEN LET settlement ==
             [group |-> data.group, from_user |-> data.from_user,
              to_user |-> data.to_user, amount |-> data.amount,
              settled_at |-> t, created_by |-> user]
       IN Outcome([d EXCEPT !.settlements = Append(@, settlement)],
                  [result EXCEPT !.success = TRUE,
                                 !.server_id = Len(d.settlements) + 1,
                                 !.data = <<settlement>>])
  ELSE Outcome(d, [result EXCEPT !.error = "Group not found or access denied"])

\* a settlement handler that answers a repeated create with the settlement
\* the first one stored
sync_settlement_once(d, t, user, change, result) ==
  LET data == change.data
      same == {k \in 1..Len(d.settlements) :
                 /\ d.settlements[k].group = data.group
                 /\ d.settlements[k].from_user = data.from_user
                 /\ d.settlements[k].to_user = data.to_user
                 /\ d.settlements[k].amount = data.amount
                 /\ d.settlements[k].created_by = user}
  IN
  IF change.operation # "create" THEN Outcome(d, result)
  ELSE IF ~("group" \in DOMAIN data /\ data.group \in GroupIds(d) /\ IsMember(d, user, data.group))
  THEN Outcome(d, [result EXCEPT !.error = "Group not found or access denied"])
  ELSE IF same # {}
  THEN LET k == CHOOSE k \in same : TRUE
       IN Outcome(d, [result EXCEPT !.success = TRUE, !.server_id = k,
                                    !.data = <<d.settlements[k]>>])
  ELSE LET settlement ==
             [group |-> data.group, from_user |-> data.from_user,
              to_user |-> data.to_user, amount |-> data.amount,
              settled_at |-> t, created_by |-> user]
       IN Outcome([d EXCEPT !.settlements = Append(@, settlement)],
                  [result EXCEPT !.success = TRUE,
                                 !.server_id = Len(d.settlements) + 1,
                                 !.data = <<settlement>>])

\* SyncPushView._sync_settlement
sync_settlement(d, t, user, change, result) ==
  LET data == change.data
  IN
  IF change.operation = "create" THEN
    IF ~("group" \in DOMAIN data /\ data.group \in GroupIds(d) /\ IsMember(d, user, data.group))
    THEN Outcome(d, [result EXCEPT !.error = "Group not found or access denied"])
    ELSE LET settlement ==
               [group |-> data.group, from_user |-> data.from_user,
                to_user |-> data.to_user, amount |-> data.amount,
                settled_at |-> t, created_by |-> user]
         IN Outcome([d EXCEPT !.settlements = Append(@, settlement)],
                    [result EXCEPT !.success = TRUE,
                                   !.server_id = Len(d.settlements) + 1,
                                   !.data = <<settlement>>])
  ELSE Outcome(d, result)

\* an entity_id that is no UUID: SyncPushSerializer.entity_id is a CharField
\* and takes it, SyncLog.entity_id is a UUIDField and cannot store it
NotUuid == -2

IsUuid(entity_id) == entity_id # NotUuid

\* SyncPushView._process_change: the _sync_* call inside try/except Exception,
\* then SyncLog.objects.create outside it. The log row cannot be written when
\* entity_id is no UUID or when the transaction is already marked for
\* rollback; the exception then leaves _process_change (raised).
process_change(d, t, user, change) ==
  LET result == NewResult(change)
      out == IF change.entity_type = "expense" THEN sync_expense(d, t, user, change, result)
             ELSE IF change.entity_type = "group" THEN sync_group(d, t, user, change, result)
             ELSE sync_settlement(d, t, user, change, result)
      log == [user |-> user, entity_type |-> change.entity_type,
              operation |-> change.operation, is_resolved |-> out.result.success]
      raised == out.needs_rollback \/ ~IsUuid(change.entity_id)
  IN [db |-> IF raised THEN out.db ELSE [out.db EXCEPT !.sync_logs = Append(@, log)],
      result |-> out.result, raised |-> raised]

\* SyncPushSerializer(data=change).is_valid(): the two ChoiceFields
SyncPushSerializer_is_valid(change) ==
  /\ change.entity_type \in {"expense", "group", "settlement"}
  /\ change.operation \in {"create", "update", "delete"}

\* the loop of SyncPushView.post over the changes: a change the serializer
\* rejects gets an error result and the loop continues with the next one;
\* an exception out of _process_change ends the loop
RECURSIVE ProcessChanges(_, _, _, _, _)
ProcessChanges(d, t, user, changes, results) ==
  IF changes = <<>> THEN [db |-> d, results |-> results, raised |-> FALSE]
  ELSE IF ~SyncPushSerializer_is_valid(Head(changes))
  THEN ProcessChanges(d, t, user, Tail(changes),
         Append(results, [NewResult(Head(changes)) EXCEPT !.error = "invalid"]))
  ELSE LET out == process_change(d, t, user, Head(changes))
       IN IF out.raised THEN [db |-> out.db, results |-> results, raised |-> TRUE]
          ELSE ProcessChanges(out.db, t, user, Tail(changes), Append(results, out.result))

\* SyncPushView.post: the loop runs inside one transaction.atomic(); an
\* exception that leaves the block rolls back everything the request wrote
SyncPushView_post(d, t, user, changes) ==
  IF changes = <<>> THEN Reply(d, 400, "No changes provided")
  ELSE LET out == ProcessChanges(d, t, user, changes, <<>>)
       IN IF out.raised THEN Reply(d, 500, "Server Error")
          ELSE Reply(out.db, 200,
                     [results |-> out.results,
                      conflicts |-> SelectSeq(out.results, LAMBDA r : r.conflict)])

\* ------------------------------------------------------------ sync pull
\* Group.objects.filter(members=user), then .filter(id__in=group_ids) when
\* the group_ids parameter is present and not empty (group_ids = {} stands
\* for a request without it)
UserGroups(d, user, group_ids) ==
  {g \in GroupIds(d) : IsMember(d, user, g) /\ (group_ids # {} => g \in group_ids)}

\* a pull that filters with >= last_sync
SyncPullView_get_inclusive(d, user, last_sync, group_ids) ==
  LET user_groups == UserGroups(d, user, group_ids)
      Since(ts) == last_sync # NoTime => ts >= last_sync
  IN Reply(d, 200,
       [groups |-> {g \in user_groups : Since(d.groups[g].updated_at)},
        expenses |-> {id \in ExpenseIds(d) :
                        d.expenses[id].group \in user_groups /\ Since(d.expenses[id].updated_at)},
        settlements |-> {k \in 1..Len(d.settlements) :
                           d.settlements[k].group \in user_groups
                           /\ Since(d.settlements[k].settled_at)}])

\* SyncPullView.get: last_sync = NoTime stands for a request without the
\* parameter; the body lists the ids of the rows that are serialized
SyncPullView_get(d, user, last_sync, group_ids) ==
  LET user_groups == UserGroups(d, user, group_ids)
      Since(ts) == last_sync # NoTime => ts > last_sync
  IN Reply(d, 200,
       [groups |-> {g \in user_groups : Since(d.groups[g].updated_at)},
        expenses |-> {id \in ExpenseIds(d) :
                        d.expenses[id].group \in user_groups /\ Since(d.expenses[id].updated_at)},
        settlements |-> {k \in 1..Len(d.settlements) :
                           d.settlements[k].group \in user_groups
                           /\ Since(d.settlements[k].settled_at)}])

\* --------------------------------------- _simplify_debts, step by step
\* the locals of _simplify_debts while no call of it is running
SimpIdle ==
  /\ sBalances = <<>>
  /\ sDebtors = <<>>
  /\ sCreditors = <<>>
  /\ sI = 0
  /\ sJ = 0
  /\ sTransactions = <<>>
  /\ sPc = "idle"

SplitIdle == eqs = [pc |-> "idle", amount |-> 0, members |-> <<>>, splits |-> <<>>]

Clients == {1, 2}

NoPush == [pc |-> "idle", user |-> "", change |-> <<>>, expense |-> <<>>, result |-> <<>>]

ConcIdle == push = [p \in Clients |-> NoPush]

\* no push transaction open, and a client that has not pulled yet
NoPull == [last_sync |-> NoTime, expenses |-> {}, settlements |-> {}]

PullIdle == tx = <<>> /\ pull = NoPull

DbIdle ==
  /\ db = EmptyDb
  /\ now = 0
  /\ dbRounding = "half_even"

SimpInit ==
  /\ \E n \in 0..MaxSimpMembers :
       \E f \in [1..n -> (-MaxBalance)..MaxBalance] :
         sBalances = SortAsc([k \in 1..n |-> [user |-> Users[k], balance |-> f[k]]])
  /\ sDebtors = <<>>
  /\ sCreditors = <<>>
  /\ sI = 0
  /\ sJ = 0
  /\ sTransactions = <<>>
  /\ sPc = "start"

SimpPartition ==
  /\ sPc = "start"
  /\ sDebtors' = DebtorsOf(sBalances)
  /\ sCreditors' = CreditorsOf(sBalances)
  /\ sPc' = "loop"
  /\ UNCHANGED <<sBalances, sI, sJ, sTransactions>>

SimpState == [debtors |-> sDebtors, creditors |-> sCreditors, i |-> sI, j |-> sJ,
              transactions |-> sTransactions]

SimpIterate ==
  /\ sPc = "loop"
  /\ LoopCondition(SimpState)
  /\ LET st == SimplifyStep(SimpState)
     IN /\ sDebtors' = st.debtors
        /\ sCreditors' = st.creditors
        /\ sI' = st.i
        /\ sJ' = st.j
        /\ sTransactions' = st.transactions
  /\ UNCHANGED <<sBalances, sPc>>

SimpReturn ==
  /\ sPc = "loop"
  /\ ~LoopCondition(SimpState)
  /\ sPc' = "done"
  /\ UNCHANGED <<sBalances, sDebtors, sCreditors, sI, sJ, sTransactions>>

SimpNext ==
  \/ SimpPartition /\ UNCHANGED <<dbVars, eqs, push, pullVars>>
  \/ SimpIterate /\ UNCHANGED <<dbVars, eqs, push, pullVars>>
  \/ SimpReturn /\ UNCHANGED <<dbVars, eqs, push, pullVars>>

InitSimplify == SimpInit /\ DbIdle /\ SplitIdle /\ ConcIdle /\ PullIdle

\* ---------------------------------------- _create_equal_splits, applied
SplitAmounts == 1..MaxSplitAmount \cup {10000}

InitSplit ==
  /\ \E amount \in SplitAmounts, n \in 1..MaxSplitMembers :
       eqs = [pc |-> "start", amount |-> amount, members |-> SubSeq(Users, 1, n),
              splits |-> <<>>]
  /\ db = EmptyDb
  /\ now = 0
  /\ dbRounding \in {"half_even", "half_up"}
  /\ SimpIdle
  /\ ConcIdle
  /\ PullIdle

\* the splits as the ExpenseSplit rows hold them after the loop
EqualSplit ==
  /\ eqs.pc = "start"
  /\ eqs' = [eqs EXCEPT !.pc = "done",
                        !.splits = create_equal_splits(eqs.amount, eqs.members, dbRounding)]
  /\ UNCHANGED <<dbVars, simpVars, push, pullVars>>

SpecSplit == InitSplit /\ [][EqualSplit]_vars

SpecSimplify == InitSimplify /\ [][SimpNext]_vars

\* a step of the while loop: an iteration, or the failed test that leaves it
SimpLoop == (SimpIterate \/ SimpReturn) /\ UNCHANGED <<dbVars, eqs, push, pullVars>>

\* the interpreter takes the next step of the loop whenever the call is in it
SpecSimplifyFair == SpecSimplify /\ WF_vars(SimpLoop)

\* -------------------------------------------------------------- requests
Amounts == 1..MaxAmount
Times == 0..MaxTime

UserList == SelectSeq(Users, LAMBDA u : u \in UserSet)

\* split lists: each user at most once, in the order of UserList
SplitListOf(f) ==
  LET present == SelectSeq(UserList, LAMBDA u : f[u] > 0)
  IN [k \in 1..Len(present) |-> [user_id |-> present[k], amount |-> f[present[k]]]]

SplitLists == {SplitListOf(f) : f \in [UserSet -> 0..MaxAmount]}

ExpenseInputs ==
  [group : 1..MaxGroups, amount : 0..MaxAmount, paid_by : UserSet, split_data : SplitLists]

ExpenseCreateChanges ==
  {[entity_type |-> "expense", operation |-> "create", entity_id |-> 0,
    client_timestamp |-> 0, data |-> data] :
     data \in [group : 1..MaxGroups, amount : Amounts, paid_by : UserSet]
              \cup [group : 1..MaxGroups, amount : Amounts, paid_by : UserSet,
                    splits : SplitLists]}

ExpenseUpdateChanges ==
  {[entity_type |-> "expense", operation |-> "update", entity_id |-> id,
    client_timestamp |-> ts, data |-> data] :
     id \in 1..MaxExpenses, ts \in Times,
     data \in [amount : Amounts] \cup [splits : SplitLists]
              \cup [amount : Amounts, splits : SplitLists]}

ExpenseDeleteChanges ==
  {[entity_type |-> "expense", operation |-> "delete", entity_id |-> id,
    client_timestamp |-> 0, data |-> <<>>] : id \in 1..MaxExpenses}

SettlementCreateChanges ==
  {[entity_type |-> "settlement", operation |-> "create", entity_id |-> 0,
    client_timestamp |-> 0, data |-> data] :
     data \in [group : 1..MaxGroups, from_user : UserSet, to_user : UserSet,
               amount : Amounts]}

GroupChanges ==
  {[entity_type |-> "group", operation |-> "create", entity_id |-> 0,
    client_timestamp |-> 0, data |-> <<>>]}
  \cup {[entity_type |-> "group", operation |-> "update", entity_id |-> id,
         client_timestamp |-> ts, data |-> <<>>] : id \in 1..MaxGroups, ts \in Times}

Changes == ExpenseCreateChanges \cup ExpenseUpdateChanges \cup ExpenseDeleteChanges
           \cup SettlementCreateChanges \cup GroupChanges

\* the tables stay within the bounds of the model
WithinBounds(d) ==
  /\ Len(d.groups) <= MaxGroups
  /\ Len(d.expenses) <= MaxExpenses
  /\ Len(d.settlements) <= MaxSettlements
  /\ \A id \in ExpenseIds(d) : d.expenses[id].sync_version <= MaxVersion

Init ==
  /\ db = EmptyDb
  /\ now = 0
  /\ dbRounding \in {"half_even", "half_up"}
  /\ SimpIdle
  /\ SplitIdle
  /\ ConcIdle
  /\ PullIdle

\* a request handler's effect on the tables (its response is reply.status, reply.body)
Serve(reply) ==
  /\ WithinBounds(reply.db)
  /\ db' = reply.db
  /\ UNCHANGED <<now, dbRounding, auxVars>>

Tick ==
  /\ now < MaxTime
  /\ now' = now + 1
  /\ UNCHANGED <<db, dbRounding, auxVars>>

CreateGroup(user) ==
  Serve(Reply(GroupCreateSerializer_create(db, now, user), 201, "created"))

JoinGroup(user, g) == Serve(GroupViewSet_join(db, user, g))

LeaveGroup(user, g) == Serve(GroupViewSet_leave(db, user, g))

RemoveMember(user, g, user_id) ==
  Serve(GroupViewSet_remove_member(db, user, g, user_id))

CreateExpense(user, data) ==
  Serve(ExpenseViewSet_create(db, now, dbRounding, user, data))

UpdateExpense(user, id, data) ==
  Serve(ExpenseViewSet_update(db, now, user, id, data))

DestroyExpense(user, id) ==
  Serve(ExpenseViewSet_destroy(db, now, user, id))

SettleExpense(user, id) ==
  Serve(ExpenseViewSet_settle(db, now, user, id))

SyncPush(user, changes, cap) ==
  /\ Len(db.sync_logs) < cap
  /\ Serve(SyncPushView_post(db, now, user, changes))

\* GroupViewSet.balances: a GET
GetBalances(user, g) ==
  LET reply == GroupViewSet_balances(db, user, g)
  IN /\ db' = reply.db
     /\ UNCHANGED <<now, dbRounding, auxVars>>

Next ==
  \/ \E user \in UserSet : CreateGroup(user)
  \/ \E user \in UserSet, g \in 1..MaxGroups : JoinGroup(user, g)
  \/ \E user \in UserSet, g \in 1..MaxGroups : LeaveGroup(user, g)
  \/ \E user \in UserSet, g \in 1..MaxGroups, member \in UserSet :
       RemoveMember(user, g, str_id(member))
  \/ \E user \in UserSet, data \in ExpenseInputs : CreateExpense(user, data)
  \/ \E user \in UserSet, id \in 1..MaxExpenses, data \in [amount : 0..MaxAmount] :
       UpdateExpense(user, id, data)
  \/ \E user \in UserSet, id \in 1..MaxExpenses : DestroyExpense(user, id)
  \/ \E user \in UserSet, id \in 1..MaxExpenses : SettleExpense(user, id)
  \/ \E user \in UserSet, change \in ExpenseCreateChanges \cup SettlementCreateChanges :
       SyncPush(user, <<change>>, MaxLog)
  \/ \E user \in UserSet, g \in 1..MaxGroups : GetBalances(user, g)

Spec == Init /\ [][Next]_vars

\* ------------------------------------------- the sync endpoints over time
\* the requests of this specification: expenses created with equal splits, and
\* pushes that create, update and delete them
EqualSplitInputs == {data \in ExpenseInputs : data.split_data = <<>>}

SyncSplitLists == {<<>>, <<[user_id |-> UserList[1], amount |-> MaxAmount]>>}

SyncChanges ==
  {c \in Changes :
     /\ c.entity_type # "settlement"
     /\ "splits" \in DOMAIN c.data => c.operation = "update" /\ c.data.splits \in SyncSplitLists}

NextSync ==
  \/ Tick
  \/ \E user \in UserSet : CreateGroup(user)
  \/ \E user \in UserSet, g \in 1..MaxGroups : JoinGroup(user, g)
  \/ \E user \in UserSet, data \in EqualSplitInputs : CreateExpense(user, data)
  \/ \E user \in UserSet, id \in 1..MaxExpenses : DestroyExpense(user, id)
  \/ \E user \in UserSet, change \in SyncChanges : SyncPush(user, <<change>>, MaxSyncLog)

SpecSync == Init /\ [][NextSync]_vars

\* --------------------------------------------- deleted expenses over time
\* the requests of this specification: every REST and push operation on an
\* expense, among them a REST update that carries is_deleted
DeleteBodies == [is_deleted : BOOLEAN] \cup [amount : {1}]

DeleteChanges ==
  {c \in SyncChanges :
     /\ c.entity_type = "expense" /\ c.operation \in {"update", "delete"}
     /\ c.operation = "update" => c.client_timestamp = MaxTime
     /\ "splits" \notin DOMAIN c.data}

NextDelete ==
  \/ Tick
  \/ \E user \in UserSet : CreateGroup(user)
  \/ \E user \in UserSet, g \in 1..MaxGroups : JoinGroup(user, g)
  \/ \E user \in UserSet, data \in EqualSplitInputs : CreateExpense(user, data)
  \/ \E user \in UserSet, id \in 1..MaxExpenses, data \in DeleteBodies :
       UpdateExpense(user, id, data)
  \/ \E user \in UserSet, id \in 1..MaxExpenses : DestroyExpense(user, id)
  \/ \E user \in UserSet, id \in 1..MaxExpenses : SettleExpense(user, id)
  \/ \E user \in UserSet, change \in DeleteChanges : SyncPush(user, <<change>>, MaxSyncLog)

SpecDelete == Init /\ [][NextDelete]_vars

\* ------------------------------------------------ push batches that fail
\* the requests of this specification: batches of one or two changes, among
\* them changes the serializer rejects, changes whose entity_id is no UUID
\* and changes whose splits cannot all be written
MaxBatch == 2

BatchSplitLists ==
  {<<[user_id |-> UserList[1], amount |-> 1], [user_id |-> UserList[2], amount |-> 1]>>,
   <<[user_id |-> UserList[1], amount |-> MaxAmount], NonDictItem>>,
   <<[user_id |-> UserList[1], amount |-> 1], [user_id |-> UserList[1], amount |-> 1]>>}

BatchChanges ==
  {[entity_type |-> "expense", operation |-> "create", entity_id |-> id,
    client_timestamp |-> 0, data |-> data] :
     id \in {0, NotUuid},
     data \in [group : {1}, amount : {MaxAmount}, paid_by : {UserList[1]}]
              \cup [group : {1}, amount : {MaxAmount}, paid_by : {UserList[1]},
                    splits : BatchSplitLists]}
  \cup {[entity_type |-> "expense", operation |-> "update", entity_id |-> 1,
         client_timestamp |-> ts, data |-> data] :
          ts \in Times,
          data \in [amount : {1}] \cup [notes : {"n"}] \cup [splits : BatchSplitLists]}
  \cup {[entity_type |-> "expense", operation |-> "create", entity_id |-> 0,
         client_timestamp |-> 0,
         data |-> [group |-> 1, amount |-> MaxAmount, paid_by |-> UserList[1],
                   notes |-> "n"]]}
  \cup {[entity_type |-> "expense", operation |-> op, entity_id |-> 1,
         client_timestamp |-> 0, data |-> <<>>] : op \in {"delete", "archive"}}
  \cup {[entity_type |-> "settlement", operation |-> "create", entity_id |-> 0,
         client_timestamp |-> 0,
         data |-> [group |-> 1, from_user |-> UserList[1], to_user |-> UserList[2],
                   amount |-> 1]]}
  \cup {[entity_type |-> "group", operation |-> "create", entity_id |-> id,
         client_timestamp |-> 0, data |-> <<>>] : id \in {0, NotUuid}}
  \cup {[entity_type |-> "group", operation |-> "update", entity_id |-> 1,
         client_timestamp |-> MaxTime, data |-> <<>>]}

Batches == UNION {[1..n -> BatchChanges] : n \in 1..MaxBatch}

\* the parameters of a pull: last_sync absent or a time, group_ids absent or
\* a set of ids, among them the id of a group that does not exist
PullTimes == Times \cup {NoTime}

GroupFilters == SUBSET (1..MaxGroups + 1)

\* SyncPullView.get: a GET
Pull(user, last_sync, group_ids) ==
  LET reply == SyncPullView_get(db, user, last_sync, group_ids)
  IN /\ db' = reply.db
     /\ UNCHANGED <<now, dbRounding, auxVars>>

NextBatch ==
  \/ Tick
  \/ \E user \in UserSet : CreateGroup(user)
  \/ \E user \in UserSet, g \in 1..MaxGroups : JoinGroup(user, g)
  \/ \E user \in UserSet, data \in EqualSplitInputs : CreateExpense(user, data)
  \/ \E user \in UserSet, batch \in Batches : SyncPush(user, batch, MaxLog)
  \/ \E user \in UserSet, g \in 1..MaxGroups : LeaveGroup(user, g)
  \/ \E user \in UserSet, last_sync \in PullTimes, group_ids \in GroupFilters :
       Pull(user, last_sync, group_ids)

SpecBatch == Init /\ [][NextBatch]_vars

\* ------------------------------------------------- groups and members
\* the requests of this specification: every way to create or update a
\* group and to change its memberships, with user ids in every spelling
UpdateGroup(user, g) == Serve(GroupViewSet_update(db, now, user, g))

NextGroups ==
  \/ Tick
  \/ \E user \in UserSet : CreateGroup(user)
  \/ \E user \in UserSet, g \in 1..MaxGroups : JoinGroup(user, g)
  \/ \E user \in UserSet, g \in 1..MaxGroups : LeaveGroup(user, g)
  \/ \E user \in UserSet, g \in 1..MaxGroups, user_id \in UserIdStrings :
       RemoveMember(user, g, user_id)
  \/ \E user \in UserSet, g \in 1..MaxGroups : UpdateGroup(user, g)
  \/ \E user \in UserSet, change \in GroupChanges : SyncPush(user, <<change>>, MaxSyncLog)

SpecGroups == Init /\ [][NextGroups]_vars

\* ---------------------------------------------- settlements over time
\* the requests of this specification: pushes of settlement changes, one of
\* them possibly a repetition of an earlier one, and the REST endpoints of
\* SettlementViewSet
MaxPushed == 2

SettlementChanges ==
  {[entity_type |-> "settlement", operation |-> "create", entity_id |-> 0,
    client_timestamp |-> 0,
    data |-> [group |-> 1, from_user |-> UserList[1], to_user |-> UserList[2],
              amount |-> amount]] : amount \in 0..MaxAmount}
  \cup {[entity_type |-> "settlement", operation |-> op, entity_id |-> 1,
         client_timestamp |-> MaxTime, data |-> [amount |-> MaxAmount]] :
          op \in {"update", "delete"}}

\* a request handler's effect on the tables, with room for MaxPushed settlements
ServeSettle(reply) ==
  /\ Len(reply.db.groups) <= MaxGroups
  /\ Len(reply.db.settlements) <= MaxPushed
  /\ db' = reply.db
  /\ UNCHANGED <<now, dbRounding, auxVars>>

PushSettlement(user, change) ==
  /\ Len(db.sync_logs) < MaxPushed
  /\ ServeSettle(SyncPushView_post(db, now, user, <<change>>))

UpdateSettlement(user, k, data) ==
  ServeSettle(SettlementViewSet_update(db, user, k, data))

DestroySettlement(user, k) == ServeSettle(SettlementViewSet_destroy(db, user, k))

NextSettle ==
  \/ Tick
  \/ \E user \in UserSet : ServeSettle(Reply(GroupCreateSerializer_create(db, now, user), 201, "created"))
  \/ \E user \in UserSet, g \in 1..MaxGroups : ServeSettle(GroupViewSet_join(db, user, g))
  \/ \E user \in UserSet, change \in SettlementChanges : PushSettlement(user, change)
  \/ \E user \in UserSet, k \in 1..MaxPushed, data \in [amount : 0..MaxAmount] :
       UpdateSettlement(user, k, data)
  \/ \E user \in UserSet, k \in 1..MaxPushed : DestroySettlement(user, k)

SpecSettle == Init /\ [][NextSettle]_vars

\* ------------------------------------- two push updates of one expense
\* Each request runs _sync_expense in its own transaction: Expense.objects.get
\* loads the row, the comparison and the permission test read the loaded
\* instance, and expense.save() writes every column of that instance.
ClientUser(p) == IF p = 1 THEN "u1" ELSE "u2"

\* a group of u1 that u2 joined, and an expense u2 created in it
ConcDb(mode) ==
  LET created == GroupCreateSerializer_create(EmptyDb, 0, "u1")
      joined == GroupViewSet_join(created, "u2", 1).db
  IN ExpenseViewSet_create(joined, 0, mode, "u2",
       [group |-> 1, amount |-> MaxAmount, paid_by |-> "u2", split_data |-> <<>>]).db

ConcChanges ==
  {c \in SyncChanges : c.entity_type = "expense" /\ c.operation = "update" /\ c.entity_id = 1}

InitConc ==
  /\ dbRounding \in {"half_even", "half_up"}
  /\ db = ConcDb(dbRounding)
  /\ now = 0
  /\ \E c1, c2 \in ConcChanges :
       push = [p \in Clients |->
                 [pc |-> "start", user |-> ClientUser(p),
                  change |-> IF p = 1 THEN c1 ELSE c2, expense |-> <<>>, result |-> <<>>]]
  /\ SimpIdle
  /\ SplitIdle
  /\ PullIdle

\* expense = Expense.objects.get(id=entity_id)
ConcGet(p) ==
  /\ push[p].pc = "start"
  /\ push' = [push EXCEPT ![p].pc = "loaded",
                          ![p].expense = <<db.expenses[push[p].change.entity_id]>>]
  /\ UNCHANGED <<dbVars, simpVars, eqs, pullVars>>

\* the rest of _process_change on the loaded instance: the conflict and
\* permission tests, save(), the splits when given, the SyncLog row, commit
ConcSave(p) ==
  /\ push[p].pc = "loaded"
  /\ LET id == push[p].change.entity_id
         loaded == [db EXCEPT !.expenses[id] = push[p].expense[1]]
         out == process_change(loaded, now, push[p].user, push[p].change)
         splits == IF out.result.success /\ "splits" \in DOMAIN push[p].change.data
                   THEN out.db.expenses[id].splits ELSE db.expenses[id].splits
         row == IF out.result.success THEN out.db.expenses[id] ELSE db.expenses[id]
     IN /\ db' = [out.db EXCEPT !.expenses[id] = [row EXCEPT !.splits = splits]]
        /\ push' = [push EXCEPT ![p].pc = "done", ![p].result = <<out.result>>]
  /\ UNCHANGED <<now, dbRounding, simpVars, eqs, pullVars>>

\* a backend that locks the whole database refuses the write of a request
\* while the other transaction is open, or after it committed under this
\* one's read: the exception leaves post() and the transaction is rolled back
ConcLocked(p) ==
  /\ push[p].pc = "loaded"
  /\ \E q \in Clients \ {p} :
       \/ push[q].pc = "loaded"
       \/ db.expenses[push[p].change.entity_id] # push[p].expense[1]
  /\ push' = [push EXCEPT ![p].pc = "done",
                          ![p].result = <<[NewResult(push[p].change) EXCEPT
                                             !.error = "database is locked"]>>]
  /\ UNCHANGED <<dbVars, simpVars, eqs, pullVars>>

ConcTick ==
  /\ now < MaxTime
  /\ now' = now + 1
  /\ UNCHANGED <<db, dbRounding, auxVars>>

NextConc ==
  \/ ConcTick
  \/ \E p \in Clients : ConcGet(p)
  \/ \E p \in Clients : ConcSave(p)
  \/ \E p \in Clients : ConcLocked(p)

SpecConc == InitConc /\ [][NextConc]_vars

\* ------------------------------------------ a pull while a push is open
\* A push runs in one transaction: its rows are stamped with the clock when
\* they are saved (auto_now, auto_now_add) and other requests see them when
\* the transaction commits. A pull reads the clock for server_timestamp and
\* then queries the committed rows. No two readings of the clock are equal.
MaxClock == 4

Puller == UserList[2]

\* a group of u1 that the pulling client's user has joined
PullDb == GroupViewSet_join(GroupCreateSerializer_create(EmptyDb, 0, UserList[1]), Puller, 1).db

PullChanges ==
  {[entity_type |-> "expense", operation |-> "create", entity_id |-> 0,
    client_timestamp |-> 0,
    data |-> [group |-> 1, amount |-> MaxAmount, paid_by |-> UserList[1]]],
   [entity_type |-> "expense", operation |-> "update", entity_id |-> 1,
    client_timestamp |-> MaxClock, data |-> [amount |-> 1]],
   [entity_type |-> "expense", operation |-> "delete", entity_id |-> 1,
    client_timestamp |-> MaxClock, data |-> <<>>],
   [entity_type |-> "settlement", operation |-> "create", entity_id |-> 0,
    client_timestamp |-> 0,
    data |-> [group |-> 1, from_user |-> UserList[1], to_user |-> Puller,
              amount |-> MaxAmount]]}

InitPull ==
  /\ db = PullDb
  /\ now = 1
  /\ dbRounding = "half_even"
  /\ SimpIdle
  /\ SplitIdle
  /\ ConcIdle
  /\ PullIdle

\* SyncPushView.post up to the end of the atomic block: the changes are
\* processed and their rows saved, not yet committed
PushWrite(user, change) ==
  /\ tx = <<>>
  /\ now < MaxClock
  /\ LET out == ProcessChanges(db, now, user, <<change>>, <<>>)
     IN /\ ~out.raised
        /\ WithinBounds(out.db)
        /\ tx' = <<out.db>>
  /\ now' = now + 1
  /\ UNCHANGED <<db, dbRounding, simpVars, eqs, push, pull>>

\* the atomic block is left: the transaction commits
PushCommit ==
  /\ tx # <<>>
  /\ db' = tx[1]
  /\ tx' = <<>>
  /\ UNCHANGED <<now, dbRounding, simpVars, eqs, push, pull>>

\* SyncPullView.get with last_sync = the server_timestamp of the client's
\* previous pull (none on its first pull); the client keeps what it receives
\* and the server_timestamp of the response
ClientPull ==
  /\ now < MaxClock
  /\ LET body == SyncPullView_get(db, Puller, pull.last_sync, {}).body
     IN pull' = [last_sync |-> now,
                 expenses |-> pull.expenses
                   \cup {<<id, db.expenses[id].updated_at>> : id \in body.expenses},
                 settlements |-> pull.settlements \cup body.settlements]
  /\ now' = now + 1
  /\ UNCHANGED <<db, dbRounding, simpVars, eqs, push, tx>>

NextPull ==
  \/ \E user \in UserSet, change \in PullChanges : PushWrite(user, change)
  \/ PushCommit
  \/ ClientPull

SpecPull == InitPull /\ [][NextPull]_vars

\* ========================================================== properties
\* ------------------------------------------------------ Debt Simplifier
\* members of the balance list with balance < -0.01, and with balance > 0.01
debtorCount == Cardinality({k \in DOMAIN sBalances : sBalances[k].balance < -1})
creditorCount == Cardinality({k \in DOMAIN sBalances : sBalances[k].balance > 1})

\* what `user` still owes (< 0) or is owed (> 0), in cents, once every 'from'
\* member has paid and every 'to' member has received the transactions
RECURSIVE Flow(_, _)
Flow(transactions, user) ==
  IF transactions = <<>> THEN 0
  ELSE LET t == Head(transactions)
       IN (IF t.from_user = user THEN t.amount ELSE 0)
          - (IF t.to_user = user THEN t.amount ELSE 0)
          + Flow(Tail(transactions), user)

Residual(balances, transactions, k) ==
  balances[k].balance + Flow(transactions, balances[k].user)

BalanceTotal(balances) == SeqSum([k \in DOMAIN balances |-> balances[k].balance])

\* C8: for a balance list whose balances sum to zero, paying the transactions
\* the simplifier returned leaves every member's residual within 0.01 of zero
C8_ResidualsWithinCent ==
  (sPc = "done" /\ BalanceTotal(sBalances) = 0)
    => \A k \in DOMAIN sBalances : Abs(Residual(sBalances, sTransactions, k)) <= 1

\* C9 as stated: the simplifier emits at most debtorCount + creditorCount - 1
\* transactions, and none when there are no debtors or no creditors
C9_AtMostCountMinusOne ==
  sPc = "done" =>
    /\ Len(sTransactions) <= debtorCount + creditorCount - 1
    /\ (debtorCount = 0 \/ creditorCount = 0) => sTransactions = <<>>

\* C9 amended: at most max(0, debtorCount + creditorCount - 1) transactions at
\* any point of the loop, and none when there are no debtors or no creditors
C9_AtMostCountMinusOneOrZero ==
  sPc \in {"loop", "done"} =>
    /\ Len(sTransactions) <= debtorCount + creditorCount - 1
       \/ (debtorCount + creditorCount = 0 /\ sTransactions = <<>>)
    /\ (debtorCount = 0 \/ creditorCount = 0) => sTransactions = <<>>
    /\ sTransactions = simplify_debts(sBalances) \/ sPc = "loop"

\* the bound is met: two debtors, one creditor, two transactions returned
C9_BoundReached ==
  /\ sPc = "done"
  /\ debtorCount >= 1 /\ creditorCount >= 1
  /\ Len(sTransactions) = debtorCount + creditorCount - 1
  /\ Len(sTransactions) >= 2

\* ---------------------------------------------------------- equal splits
\* C6: the equal splits stored for amount A over N members sum to exactly A,
\* and every member but the first holds the floor-to-cent quotient of A/N (so
\* only the first can hold a remainder)
C6_EqualSplitsSumToAmount ==
  eqs.pc = "done" =>
    /\ SplitTotal(eqs.splits) = eqs.amount
    /\ \A k \in 2..Len(eqs.splits) :
         eqs.splits[k].amount = eqs.amount \div Len(eqs.members)

\* -------------------------------------------------------- Balance Engine
\* the net balance getGroupBalances reports for member u of group g
BalanceOf(d, g, u) ==
  LET b == calculate_balances(d, g).balances
  IN b[CHOOSE k \in DOMAIN b : b[k].user = u].balance

\* C1: a settlement of s from member A to member B, once recorded, changes A's
\* net balance by +s, B's by -s and no other member's
C1_SettlementMovesBalancesByAmount ==
  \A user \in UserSet, c \in SettlementCreateChanges :
    LET reply == SyncPushView_post(db, now, user, <<c>>)
        g == c.data.group
        A == c.data.from_user
        B == c.data.to_user
    IN (/\ g \in GroupIds(db) /\ IsMember(db, A, g) /\ IsMember(db, B, g) /\ A # B
        /\ reply.body.results[1].success)
       => \A k \in DOMAIN MembersOf(db, g) :
            LET u == MembersOf(db, g)[k]
            IN BalanceOf(reply.db, g, u) =
                 BalanceOf(db, g, u) + (IF u = A THEN c.data.amount
                                        ELSE IF u = B THEN -c.data.amount ELSE 0)

\* what member u paid for, and owes on, the expenses of group g that are
\* neither deleted nor settled
OpenExpense(id, g) ==
  db.expenses[id].group = g /\ ~db.expenses[id].is_deleted /\ ~db.expenses[id].is_settled

PaidOpen(g, u) ==
  SeqSum([id \in ExpenseIds(db) |->
    IF OpenExpense(id, g) /\ db.expenses[id].paid_by = u THEN db.expenses[id].amount ELSE 0])

OwedOpen(g, u) ==
  SeqSum([id \in ExpenseIds(db) |->
    IF OpenExpense(id, g) THEN OwedBySplits(db.expenses[id].splits, u) ELSE 0])

NoSettlements(g) == \A k \in DOMAIN db.settlements : db.settlements[k].group # g

\* C2: in a group without settlements every member is listed once, with net
\* balance = paid - owed over the expenses that are neither deleted nor settled
C2_NetIsPaidMinusOwed ==
  \A g \in GroupIds(db) :
    NoSettlements(g) =>
      LET b == calculate_balances(db, g).balances
      IN /\ Len(b) = Len(MembersOf(db, g))
         /\ \A k \in DOMAIN b :
              /\ IsMember(db, b[k].user, g)
              /\ b[k].balance = PaidOpen(g, b[k].user) - OwedOpen(g, b[k].user)
              /\ b[k].paid = PaidOpen(g, b[k].user)
              /\ b[k].owes = OwedOpen(g, b[k].user)

\* a group without settlements where one member is owed and another owes
C2_OpenExpenseCounted ==
  \E g \in GroupIds(db) :
    /\ NoSettlements(g)
    /\ \E id \in ExpenseIds(db) : OpenExpense(id, g)
    /\ \E u, v \in UserSet :
         /\ IsMember(db, u, g) /\ IsMember(db, v, g)
         /\ BalanceOf(db, g, u) > 0 /\ BalanceOf(db, g, v) < 0

\* C3: the net balances of a group's listed members sum to zero within 0.01
C3_BalancesSumToZero ==
  \A g \in GroupIds(db) : Abs(BalanceTotal(calculate_balances(db, g).balances)) <= 1

SplitsOff(splits, amount) == Abs(SplitTotal(splits) - amount) > 1

\* C7: creating an expense with explicit splits, through the REST endpoint or
\* a sync push, is rejected with nothing stored if and only if the splits'
\* sum differs from the amount by more than 0.01
C7_ExplicitSplitsValidated ==
  \A user \in UserSet, data \in ExpenseInputs :
    (/\ data.split_data # <<>> /\ data.amount > 0
     /\ data.group \in GroupIds(db) /\ IsMember(db, user, data.group))
    => LET rest == ExpenseViewSet_create(db, now, dbRounding, user, data)
           c == [entity_type |-> "expense", operation |-> "create", entity_id |-> 0,
                 client_timestamp |-> 0,
                 data |-> [group |-> data.group, amount |-> data.amount,
                           paid_by |-> data.paid_by, splits |-> data.split_data]]
           sync == SyncPushView_post(db, now, user, <<c>>)
       IN /\ (rest.status = 400 /\ rest.db = db) <=> SplitsOff(data.split_data, data.amount)
          /\ (~sync.body.results[1].success /\ sync.db.expenses = db.expenses)
               <=> SplitsOff(data.split_data, data.amount)

\* ------------------------------------------------------- push conflicts
\* C4: a push update whose client_timestamp is older than the expense's stored
\* updated_at ends as a conflict that leaves every expense and split as stored
\* and returns the stored expense; one that is as recent or newer never does
C4_StaleUpdateIsConflict ==
  \A user \in UserSet, c \in ExpenseUpdateChanges :
    c.entity_id \in ExpenseIds(db) =>
      LET stored == db.expenses[c.entity_id]
          reply == SyncPushView_post(db, now, user, <<c>>)
          r == reply.body.results[1]
      IN /\ c.client_timestamp < stored.updated_at =>
              /\ r.conflict /\ ~r.success
              /\ r.server_data = <<stored>>
              /\ reply.body.conflicts = <<r>>
              /\ reply.db.expenses = db.expenses
              /\ reply.db.groups = db.groups /\ reply.db.settlements = db.settlements
         /\ c.client_timestamp >= stored.updated_at => ~r.conflict /\ reply.body.conflicts = <<>>

\* an expense a push rewrote at time 1, and a later push update of it that
\* declared time 0 and was refused as a conflict
C4_StaleUpdateRefused ==
  /\ Len(db.sync_logs) = 2
  /\ db.sync_logs[1] = [user |-> "u2", entity_type |-> "expense", operation |-> "update",
                         is_resolved |-> TRUE]
  /\ db.sync_logs[2] = [user |-> "u1", entity_type |-> "expense", operation |-> "update",
                         is_resolved |-> FALSE]
  /\ \E id \in ExpenseIds(db) :
       /\ db.expenses[id].updated_at = 1 /\ db.expenses[id].sync_version = 2
       /\ db.expenses[id].created_by = "u1"
       /\ \E c \in ExpenseUpdateChanges :
            /\ c.entity_id = id /\ c.client_timestamp = 0
            /\ SyncPushView_post(db, now, "u1", <<c>>).body.results[1].conflict

\* --------------------------------------------------- concurrent pushes
\* C5: two push updates of one expense are never both applied after both
\* loaded the same stored row
C5_UpdatesSerializedPerExpense ==
  ~(/\ \A p \in Clients : push[p].pc = "done" /\ push[p].result[1].success
    /\ push[1].expense = push[2].expense)

\* what a change stored is still stored: no table has lost a row, and every
\* row that the later change c does not address is as it was
Kept(before, after, c) ==
  /\ Len(after.groups) >= Len(before.groups)
  /\ Len(after.expenses) >= Len(before.expenses)
  /\ Len(after.settlements) >= Len(before.settlements)
  /\ Len(after.memberships) >= Len(before.memberships)
  /\ \A id \in ExpenseIds(before) :
       ~(c.entity_type = "expense" /\ c.entity_id = id) =>
         after.expenses[id] = before.expenses[id]
  /\ \A g \in GroupIds(before) :
       ~(c.entity_type = "group" /\ c.entity_id = g) =>
         after.groups[g] = before.groups[g]

\* C11: in a push batch <<c1, c2>> whose first change is applied, the second
\* change gets its own outcome, and when the second change fails, whatever
\* the first change stored is still stored when the response is returned.
C11_EarlierChangesSurviveLaterFailure ==
  \A user \in UserSet, c1 \in BatchChanges, c2 \in BatchChanges :
    LET first == SyncPushView_post(db, now, user, <<c1>>)
        both == SyncPushView_post(db, now, user, <<c1, c2>>)
    IN (first.status = 200 /\ first.body.results[1].success) =>
         /\ both.status = 200
         /\ Len(both.body.results) = 2
         /\ both.body.results[1] = first.body.results[1]
         /\ ~both.body.results[2].success =>
              /\ first.db # db
              /\ Kept(first.db, both.db, c2)

\* C12: a pushed create or update of an expense that carries splits writes
\* the expense's splits all or none: after a create either no expense was
\* added or the new expense has every split of the change; after an update
\* the expense has either every split of the change or its old splits.
C12_SplitsWrittenAllOrNone ==
  \A user \in UserSet, c \in BatchChanges :
    (c.entity_type = "expense" /\ "splits" \in DOMAIN c.data) =>
      LET reply == SyncPushView_post(db, now, user, <<c>>)
          n == Len(reply.db.expenses)
      IN /\ c.operation = "create" =>
              \/ reply.db.expenses = db.expenses
              \/ /\ n = Len(db.expenses) + 1
                 /\ reply.db.expenses[n].splits = SyncSplits(c.data.splits)
         /\ (c.operation = "update" /\ c.entity_id \in ExpenseIds(db)) =>
              \/ reply.db.expenses[c.entity_id].splits = SyncSplits(c.data.splits)
              \/ reply.db.expenses[c.entity_id].splits = db.expenses[c.entity_id].splits

\* C13: a push batch of n changes appends exactly n rows to the sync log,
\* one for every change whatever its outcome, before the response is returned.
C13_OneLogEntryPerChange ==
  \A user \in UserSet, batch \in Batches :
    LET reply == SyncPushView_post(db, now, user, batch)
    IN reply.status = 200 =>
         Len(reply.db.sync_logs) = Len(db.sync_logs) + Len(batch)

\* C14: when a change's entity mutation has been applied and the write of its
\* audit log row then fails, the mutation is not undone: the tables the
\* request leaves behind are the tables as the mutation left them.
C14_MutationSurvivesLogFailure ==
  \A user \in UserSet, c \in BatchChanges :
    LET out == process_change(db, now, user, c)
        reply == SyncPushView_post(db, now, user, <<c>>)
    IN (SyncPushSerializer_is_valid(c) /\ out.result.success /\ out.raised) =>
         reply.db = out.db

\* C15: a user who is neither the creator of an expense nor the owner of its
\* group changes nothing of the expense or its splits by a REST update,
\* destroy or settle, nor by a pushed update or delete.
C15_OnlyCreatorOrOwnerMutates ==
  \A user \in UserSet, id \in ExpenseIds(db) :
    ~IsExpenseOwner(db, user, id) =>
      /\ \A data \in [amount : Amounts] :
           ExpenseViewSet_update(db, now, user, id, data).db.expenses = db.expenses
      /\ ExpenseViewSet_destroy(db, now, user, id).db.expenses = db.expenses
      /\ ExpenseViewSet_settle(db, now, user, id).db.expenses = db.expenses
      /\ \A c \in ExpenseUpdateChanges \cup ExpenseDeleteChanges :
           c.entity_id = id =>
             SyncPushView_post(db, now, user, <<c>>).db.expenses = db.expenses

\* an expense record with the two fields a delete may touch blanked out
SoftDeleteView(e) == [e EXCEPT !.is_deleted = TRUE, !.updated_at = NoTime]

\* in the current state, whoever deletes whichever expense, by REST destroy
\* or by a pushed delete, changes of that expense only is_deleted and updated_at
DeleteOnlyFlags ==
  \A user \in UserSet, id \in ExpenseIds(db) :
    LET c == [entity_type |-> "expense", operation |-> "delete", entity_id |-> id,
              client_timestamp |-> 0, data |-> <<>>]
        rest == ExpenseViewSet_destroy(db, now, user, id)
        sync == SyncPushView_post(db, now, user, <<c>>)
        Flagged(after) ==
          /\ Len(after.expenses) = Len(db.expenses)
          /\ \A other \in ExpenseIds(db) : other # id => after.expenses[other] = db.expenses[other]
          /\ \/ after.expenses[id] = db.expenses[id]
             \/ /\ after.expenses[id].is_deleted
                /\ after.expenses[id].updated_at = now
                /\ SoftDeleteView(after.expenses[id]) = SoftDeleteView(db.expenses[id])
    IN /\ Flagged(rest.db)
       /\ rest.status = 204 => rest.db.expenses[id].is_deleted
       /\ Flagged(sync.db)
       /\ sync.body.results[1].success => sync.db.expenses[id].is_deleted

\* C16: a REST destroy or a pushed delete of an expense changes of that
\* expense only is_deleted (to TRUE) and updated_at (to the current time);
\* its other fields and its splits, and every other expense, are as before;
\* and no step of the system removes a row of the expense table.
C16_DeleteOnlyFlagsTheExpense ==
  /\ []DeleteOnlyFlags
  /\ [][Len(db'.expenses) >= Len(db.expenses)]_vars

\* an expense with splits has been deleted by its creator, and is still stored
C16_DeletedExpenseStillStored ==
  \E id \in ExpenseIds(db) :
    /\ db.expenses[id].is_deleted
    /\ db.expenses[id].splits # <<>>
    /\ db.expenses[id].updated_at > 0

\* the tables of a state apart from the sync log
Entities(d) == [d EXCEPT !.sync_logs = <<>>]

C18_OwnerKeepsOwnerMembership ==
  /\ \A g \in GroupIds(db) : RoleOf(db, db.groups[g].owner, g) = "owner"
  /\ \A g \in GroupIds(db), user \in UserSet, user_id \in UserIdStrings :
       LET owner == db.groups[g].owner
       IN /\ GroupViewSet_leave(db, owner, g).db = db
          /\ to_python(user_id) = owner =>
               GroupViewSet_remove_member(db, user, g, user_id).db = db

\* C19: a pull by a user returns exactly the groups, expenses and
\* settlements that belong to a group the user is a member of now and that
\* the group filter, if given, names, and whose time of last change
\* (updated_at; settled_at for a settlement) is later than last_sync, if
\* given; soft-deleted expenses are among them, and the pull changes nothing.
C19_PullReturnsMemberEntitiesSince ==
  \A user \in UserSet, last_sync \in PullTimes, group_ids \in GroupFilters :
    LET reply == SyncPullView_get(db, user, last_sync, group_ids)
        Wanted(g) == IsMember(db, user, g) /\ (group_ids = {} \/ g \in group_ids)
        Later(ts) == last_sync = NoTime \/ ts > last_sync
    IN /\ reply.db = db
       /\ \A g \in GroupIds(db) :
            g \in reply.body.groups <=> (Wanted(g) /\ Later(db.groups[g].updated_at))
       /\ \A id \in ExpenseIds(db) :
            id \in reply.body.expenses <=>
              (Wanted(db.expenses[id].group) /\ Later(db.expenses[id].updated_at))
       /\ \A k \in 1..Len(db.settlements) :
            k \in reply.body.settlements <=>
              (Wanted(db.settlements[k].group) /\ Later(db.settlements[k].settled_at))
       /\ reply.body.groups \subseteq GroupIds(db)
       /\ reply.body.expenses \subseteq ExpenseIds(db)
       /\ reply.body.settlements \subseteq 1..Len(db.settlements)

\* a member's pull since time 0 returns a soft-deleted expense and a
\* settlement, both later than 0, while a user outside the group who names
\* the group in the filter gets nothing
C19_PullSeesDeletedAndHidesFromOutsider ==
  \E user \in UserSet, other \in UserSet, id \in ExpenseIds(db) :
    /\ IsMember(db, user, 1)
    /\ ~IsMember(db, other, 1)
    /\ db.expenses[id].is_deleted
    /\ id \in SyncPullView_get(db, user, 0, {}).body.expenses
    /\ SyncPullView_get(db, user, 0, {1}).body.settlements # {}
    /\ SyncPullView_get(db, user, 0, {1}).body.groups = {}
    /\ SyncPullView_get(db, other, NoTime, {1}).body =
         [groups |-> {}, expenses |-> {}, settlements |-> {}]

\* C20: every stored expense has splits whose amounts add up to the
\* expense's amount within one cent, and no two splits of one expense are
\* for the same user.
C20_StoredSplitsMatchAmount ==
  \A id \in ExpenseIds(db) :
    LET e == db.expenses[id]
    IN /\ Abs(SplitTotal(e.splits) - e.amount) <= 1
       /\ \A j \in 1..Len(e.splits), k \in 1..Len(e.splits) :
            e.splits[j].user = e.splits[k].user => j = k

\* pushed changes that carry an amount of zero
ZeroAmountChanges ==
  {[entity_type |-> "settlement", operation |-> "create", entity_id |-> 0,
    client_timestamp |-> 0,
    data |-> [group |-> 1, from_user |-> UserList[1], to_user |-> UserList[2],
              amount |-> 0]],
   [entity_type |-> "expense", operation |-> "create", entity_id |-> 0,
    client_timestamp |-> 0,
    data |-> [group |-> 1, amount |-> 0, paid_by |-> UserList[1]]],
   [entity_type |-> "expense", operation |-> "update", entity_id |-> 1,
    client_timestamp |-> MaxTime, data |-> [amount |-> 0]]}

\* C21: every stored expense and every stored settlement has an amount
\* above zero, and a pushed create or update that carries an amount of zero
\* is refused with nothing written but its log row.
C21_AmountsPositive ==
  /\ \A id \in ExpenseIds(db) : db.expenses[id].amount > 0
  /\ \A k \in 1..Len(db.settlements) : db.settlements[k].amount > 0
  /\ \A user \in UserSet, c \in ZeroAmountChanges :
       LET reply == SyncPushView_post(db, now, user, <<c>>)
       IN /\ Entities(reply.db) = Entities(db)
          /\ ~reply.body.results[1].success

\* C22: no request changes or removes a stored settlement: whoever calls the
\* REST update or destroy of a settlement, or pushes an update or a delete
\* of entity type settlement, the settlement table is afterwards as before.
C22_SettlementsOnlyAdded ==
  \A user \in UserSet, k \in 1..Len(db.settlements) :
    /\ \A data \in [amount : 0..MaxAmount] :
         SettlementViewSet_update(db, user, k, data).db.settlements = db.settlements
    /\ SettlementViewSet_destroy(db, user, k).db.settlements = db.settlements
    /\ \A c \in SettlementChanges :
         c.operation # "create" =>
           SyncPushView_post(db, now, user, <<c>>).db.settlements = db.settlements

\* one change for every entity type and operation, addressed to row 1
AllKindsOfChange ==
  {[entity_type |-> type, operation |-> op, entity_id |-> 1,
    client_timestamp |-> ts,
    data |-> [group |-> 1, amount |-> 1, paid_by |-> UserList[1],
              from_user |-> UserList[1], to_user |-> UserList[2]]] :
     type \in {"expense", "group", "settlement"},
     op \in {"create", "update", "delete"}, ts \in Times}

\* C23: every pushed change of every entity type and operation ends applied
\* (success), as a conflict (conflict flag and server state) or rejected
\* (an error text), and in one of them only; none ends without success,
\* without the conflict flag and without an error.
C23_EveryChangeHasAnOutcome ==
  \A user \in UserSet, c \in AllKindsOfChange :
    LET r == SyncPushView_post(db, now, user, <<c>>).body.results[1]
    IN /\ r.success \/ r.conflict \/ r.error # ""
       /\ r.success => ~r.conflict /\ r.error = ""
       /\ r.conflict => r.server_data # <<>>

\* the bodies of a REST update of an expense: a new amount or a new sync_version
UpdateBodies == [amount : Amounts] \cup [sync_version : 0..MaxVersion]

\* C24: no operation on an expense lowers its sync_version; a pushed update
\* that is applied raises it by one and stamps last_synced_at with the
\* current time, and one that ends as a conflict or is rejected leaves it
\* as it was.
C24_SyncVersionNeverDecreases ==
  \A user \in UserSet, id \in ExpenseIds(db) :
    LET old == db.expenses[id].sync_version
        VersionAfter(reply) == reply.db.expenses[id].sync_version
    IN /\ \A data \in UpdateBodies :
            VersionAfter(ExpenseViewSet_update(db, now, user, id, data)) >= old
       /\ VersionAfter(ExpenseViewSet_settle(db, now, user, id)) >= old
       /\ VersionAfter(ExpenseViewSet_destroy(db, now, user, id)) >= old
       /\ \A c \in ExpenseUpdateChanges \cup ExpenseDeleteChanges \cup BatchChanges :
            (c.entity_type = "expense" /\ c.operation \in {"update", "delete"}
               /\ c.entity_id = id) =>
              LET reply == SyncPushView_post(db, now, user, <<c>>)
              IN IF reply.status # 200 THEN VersionAfter(reply) = old
                 ELSE IF c.operation = "update" /\ reply.body.results[1].success
                 THEN /\ VersionAfter(reply) = old + 1
                      /\ reply.db.expenses[id].last_synced_at = now
                 ELSE VersionAfter(reply) = old

\* an expense record with the fields blanked out that an update of the
\* fields given may write: those fields, and the update's own stamps
FrameOf(e, fields) ==
  [e EXCEPT !.amount = IF "amount" \in fields THEN 0 ELSE @,
            !.notes = IF "notes" \in fields THEN "" ELSE @,
            !.splits = IF "splits" \in fields THEN <<>> ELSE @,
            !.sync_version = 0, !.last_synced_at = NoTime, !.updated_at = NoTime]

\* C25: a pushed update of an expense that is applied writes the fields of
\* its data and no other: a field given has the given value, a field not
\* given keeps its value, the splits are replaced only when given, and
\* group, payer, creator, is_deleted and is_settled are as before; every
\* other expense is untouched.
C25_UpdateWritesGivenFieldsOnly ==
  \A user \in UserSet, c \in BatchChanges :
    (c.entity_type = "expense" /\ c.operation = "update" /\ c.entity_id \in ExpenseIds(db)) =>
      LET reply == SyncPushView_post(db, now, user, <<c>>)
          old == db.expenses[c.entity_id]
          new == reply.db.expenses[c.entity_id]
      IN (reply.status = 200 /\ reply.body.results[1].success) =>
           /\ FrameOf(new, DOMAIN c.data) = FrameOf(old, DOMAIN c.data)
           /\ "amount" \in DOMAIN c.data => new.amount = c.data.amount
           /\ "notes" \in DOMAIN c.data => new.notes = c.data.notes
           /\ "splits" \in DOMAIN c.data => new.splits = SyncSplits(c.data.splits)
           /\ Len(reply.db.expenses) = Len(db.expenses)
           /\ \A id \in ExpenseIds(db) :
                id # c.entity_id => reply.db.expenses[id] = db.expenses[id]

\* an expense pushed with notes and amount MaxAmount has been given the
\* amount 1 by a pushed update, and has kept its notes
C25_AmountUpdatedNotesKept ==
  \E id \in ExpenseIds(db) :
    /\ db.expenses[id].notes = "n"
    /\ db.expenses[id].amount = 1
    /\ MaxAmount > 1
    /\ db.expenses[id].sync_version = 2
    /\ Len(db.sync_logs) = 2
    /\ db.sync_logs[1].operation = "create"
    /\ db.sync_logs[2].operation = "update"

\* the create changes a client may repeat: a settlement, a group, an expense
CreateChanges ==
  {c \in SettlementChanges : c.operation = "create"}
  \cup {[entity_type |-> "group", operation |-> "create", entity_id |-> 0,
         client_timestamp |-> 0, data |-> <<>>]}
  \cup {[entity_type |-> "expense", operation |-> "create", entity_id |-> 0,
         client_timestamp |-> 0,
         data |-> [group |-> 1, amount |-> MaxAmount, paid_by |-> UserList[1]]]}

\* the rows of the table a change of this entity type is stored in
TableOf(d, entity_type) ==
  IF entity_type = "expense" THEN d.expenses
  ELSE IF entity_type = "group" THEN d.groups ELSE d.settlements

\* the results of two applied creates name two new rows of the table
TwoNewRows(before, after, change, first, second) ==
  LET old == Len(TableOf(before, change.entity_type))
  IN /\ first.success /\ second.success
     /\ Len(TableOf(after, change.entity_type)) = old + 2
     /\ first.server_id # second.server_id
     /\ {first.server_id, second.server_id} = {old + 1, old + 2}
     /\ first.server_id # change.entity_id
     /\ second.server_id # change.entity_id
     /\ first.data = <<TableOf(after, change.entity_type)[first.server_id]>>
     /\ second.data = <<TableOf(after, change.entity_type)[second.server_id]>>

\* C26: a create pushed twice, in one batch or in two requests, is applied
\* twice whenever it is applied once: two rows are added to the table, and
\* the two results carry two different server ids, both new and both
\* different from the id the client sent.
C26_RepeatedCreateStoresTwo ==
  \A user \in UserSet, c \in CreateChanges :
    LET once == SyncPushView_post(db, now, user, <<c>>)
        again == SyncPushView_post(once.db, now, user, <<c>>)
        both == SyncPushView_post(db, now, user, <<c, c>>)
    IN (once.status = 200 /\ once.body.results[1].success) =>
         /\ again.status = 200
         /\ TwoNewRows(db, again.db, c, once.body.results[1], again.body.results[1])
         /\ both.status = 200
         /\ TwoNewRows(db, both.db, c, both.body.results[1], both.body.results[2])

\* the same settlement create has been pushed in two requests, and both
\* settlements are stored
C26_SameSettlementStoredTwice ==
  /\ Len(db.settlements) = 2
  /\ db.settlements[1].amount = db.settlements[2].amount
  /\ db.settlements[1].created_by = db.settlements[2].created_by
  /\ db.settlements[1].amount > 0
  /\ Len(db.sync_logs) = 2
  /\ \A k \in 1..2 : db.sync_logs[k].operation = "create" /\ db.sync_logs[k].is_resolved

\* ------------------------------------------------- the simplifier's loop
\* the iterations the while loop still runs from the locals st
RECURSIVE Iterations(_)
Iterations(st) == IF LoopCondition(st) THEN 1 + Iterations(SimplifyStep(st)) ELSE 0

\* the cursors stay within the lists, the lists hold the debtors and the
\* creditors of the input, and the loop returns with a list exhausted
CursorsInRange ==
  /\ sPc \in {"loop", "done"} =>
       /\ Len(sDebtors) = debtorCount /\ Len(sCreditors) = creditorCount
       /\ sI \in 0..debtorCount /\ sJ \in 0..creditorCount
  /\ sPc = "done" => (sI = debtorCount \/ sJ = creditorCount)

\* an iteration moves each cursor by one when the remainder of its entry is
\* below 0.01 and not otherwise, and moves at least one of them
IterationAdvances ==
  (sPc = "loop" /\ sPc' = "loop") =>
    /\ sI' = IF FloatLt(sDebtors'[sI + 1].amount, Float001) THEN sI + 1 ELSE sI
    /\ sJ' = IF FloatLt(sCreditors'[sJ + 1].amount, Float001) THEN sJ + 1 ELSE sJ
    /\ sI' + sJ' > sI + sJ

\* C27 as stated: from its first test the loop runs at most
\* debtorCount + creditorCount - 1 iterations
C27_AtMostCountMinusOneIterations ==
  (sPc = "loop" /\ sI = 0 /\ sJ = 0) =>
    Iterations(SimpState) <= debtorCount + creditorCount - 1

\* the iterations left at any point of the loop: none when a list is
\* exhausted, else at most the entries left in both lists less one
IterationsLeftBounded ==
  sPc = "loop" =>
    /\ ~LoopCondition(SimpState) => Iterations(SimpState) = 0
    /\ LoopCondition(SimpState) =>
         Iterations(SimpState) <= (debtorCount - sI) + (creditorCount - sJ) - 1

\* C27 amended: the loop, once entered, is left; each iteration advances
\* the cursor(s) whose remainder is below 0.01, at least one; the loop runs
\* no iteration when a list is empty and at most debtorCount + creditorCount
\* - 1 otherwise, and returns with a list exhausted.
C27_LoopTerminatesWithinBound ==
  /\ []CursorsInRange
  /\ []IterationsLeftBounded
  /\ [][IterationAdvances]_vars
  /\ (sPc = "loop") ~> (sPc = "done")

\* the loop has run and returned with both cursors advanced past one entry
\* of a list of two
C27_LoopRanToExhaustion ==
  /\ sPc = "done"
  /\ debtorCount = 2 /\ creditorCount >= 1
  /\ sI = 2
  /\ sJ >= 1

\* C28: a pushed update of an expense by a user who is neither a member of
\* the expense's group nor its creator returns no expense: the outcome
\* carries neither data nor server_data, whatever the client_timestamp.
C28_PushShowsNoExpenseToOutsider ==
  \A user \in UserSet, c \in SyncChanges :
    (/\ c.entity_type = "expense" /\ c.operation = "update"
     /\ c.entity_id \in ExpenseIds(db)
     /\ ~IsMember(db, user, db.expenses[c.entity_id].group)
     /\ db.expenses[c.entity_id].created_by # user) =>
      LET reply == SyncPushView_post(db, now, user, <<c>>)
      IN /\ reply.status = 200
         /\ reply.body.results[1].server_data = <<>>
         /\ reply.body.results[1].data = <<>>

\* C29: a client that pulls with last_sync = the server_timestamp of its
\* previous pull misses no change: every committed version of an expense and
\* every committed settlement of its groups that is not later than its
\* last_sync, and so in no later pull, is among the rows its pulls returned.
C29_PullMissesNoChange ==
  pull.last_sync # NoTime =>
    /\ \A id \in ExpenseIds(db) :
         (/\ IsMember(db, Puller, db.expenses[id].group)
          /\ db.expenses[id].updated_at <= pull.last_sync) =>
           <<id, db.expenses[id].updated_at>> \in pull.expenses
    /\ \A k \in 1..Len(db.settlements) :
         (/\ IsMember(db, Puller, db.settlements[k].group)
          /\ db.settlements[k].settled_at <= pull.last_sync) =>
           k \in pull.settlements

\* ------------------------------------------------------- soft deletion
\* a deleted expense is in no REST listing and in no balance: no user sees
\* it through get_queryset, and the balances of its group do not depend on
\* its amount or its splits
DeletedStaysOut ==
  \A id \in ExpenseIds(db) :
    db.expenses[id].is_deleted =>
      /\ \A user \in UserSet : ~ExpenseVisible(db, user, id)
      /\ calculate_balances(db, db.expenses[id].group)
           = calculate_balances([db EXCEPT !.expenses[id].amount = 0,
                                           !.expenses[id].splits = <<>>],
                                db.expenses[id].group)

\* no request removes a deleted expense or clears its is_deleted
DeletedStaysDeleted ==
  \A id \in ExpenseIds(db) :
    db.expenses[id].is_deleted =>
      id \in ExpenseIds(db') /\ db'.expenses[id].is_deleted

\* C30: soft deletion is permanent. No REST request and no pushed change
\* sets is_deleted of a deleted expense back to FALSE, a pushed update that
\* is applied to it included; a deleted expense is in no REST listing and
\* counts in no balance.
C30_SoftDeletionIsPermanent == []DeletedStaysOut /\ [][DeletedStaysDeleted]_vars

\* an expense was deleted by a pushed delete, a pushed update was then
\* applied to it, and it is still deleted
C30_DeletedThenUpdated ==
  /\ Len(db.expenses) = 1
  /\ db.expenses[1].is_deleted
  /\ db.expenses[1].sync_version = 2
  /\ Len(db.sync_logs) = 2
  /\ db.sync_logs[1].operation = "delete" /\ db.sync_logs[1].is_resolved
  /\ db.sync_logs[2].operation = "update" /\ db.sync_logs[2].is_resolved

====
